---- MODULE Spec2Model ----
(***************************************************************************)
(* Monthly Report API: the persistence shim (backend/database.py), the     *)
(* record schemas (backend/schemas.py) and the HTTP handlers               *)
(* (backend/main.py), over a document store, a local upload directory and  *)
(* the server's UTC clock.                                                 *)
(*                                                                         *)
(* The document store and the filesystem are shared by every request:      *)
(* each database round trip and each file write is one atomic step, and    *)
(* create_document / update_document are two round trips (the write, then  *)
(* the find_one that re-reads), so another request can act in between.     *)
(*                                                                         *)
(* Values: None (and the empty dict) is the empty function <<>>; an absent *)
(* Optional[str] is NoneS; an absent Optional[int] query parameter is 0    *)
(* (the handlers only test month/year for truthiness, and None == n is     *)
(* False as 0 == n is for every stored year and month); timestamps are     *)
(* the clock's reading in milliseconds, the precision the store keeps;     *)
(* amounts and durations are integers.                                     *)
(***************************************************************************)
EXTENDS Integers, Sequences, FiniteSets, TLC

VARIABLES
    db,      \* collection name -> set of stored documents (each with _id)
    nextId,  \* the next ObjectId the store generates
    clock,   \* datetime.utcnow(), in milliseconds
    fs,      \* UPLOAD_DIR: path -> bytes written
    pc,      \* per request slot: "idle", or "find" (written, re-read pending)
    pend,    \* per request slot: the re-read a pending request still has to do
    resp,    \* the last completed request and what it returned
    origin   \* history: _id -> the input of the request that inserted it,
             \* kept while no update_one or delete_one has matched that _id

vars == <<db, nextId, clock, fs, pc, pend, resp, origin>>

-----------------------------------------------------------------------------
(* Bounds of the model *)

NumProcs == 2
MaxIds == 2
MaxClock == 1
MaxRecapIds == 3
MaxFileIds == 2

Procs == 1..NumProcs

-----------------------------------------------------------------------------
(* Values *)

None == <<>>
NoneS == "None"

Collections == {"activity", "finance", "file"}

\* dict.update: the keys of u override those of d
DictUpdate(d, u) == u @@ d

\* dict without key k
DictPop(d, k) == [x \in (DOMAIN d) \ {k} |-> d[x]]

-----------------------------------------------------------------------------
(* bson.ObjectId: the store's identifiers are the numbers 1, 2, ...; str()  *)
(* formats one and ObjectId(s) parses it back, raising InvalidId on any     *)
(* string that is not the format of an identifier.                          *)

\* str(ObjectId) of every identifier the store can generate within the bounds
OidTable == [n \in 1..(MaxIds + MaxRecapIds + MaxFileIds) |-> "oid" \o ToString(n)]

OidRange == DOMAIN OidTable

OidStr(n) == OidTable[n]

InvalidId == 0

ObjectId(s) ==
    IF \E n \in OidRange : OidTable[n] = s
    THEN CHOOSE n \in OidRange : OidTable[n] = s
    ELSE InvalidId

-----------------------------------------------------------------------------
(* Record schemas: what pydantic accepts, and payload.dict() *)

Categories ==
    {"administration", "academics", "finance", "social", "community service",
     "documentation"}

\* re.match(r"^(administration|...|documentation)$", s): the alternation from
\* the start of s, then "$", which matches at the end of s and also just
\* before a newline that ends s
RegexMatch(s) ==
    \/ s \in Categories
    \/ /\ Len(s) >= 1
       /\ SubSeq(s, Len(s), Len(s)) = "\n"
       /\ SubSeq(s, 1, Len(s) - 1) \in Categories

IsLeap(y) == (y % 4 = 0 /\ y % 100 # 0) \/ y % 400 = 0

DaysInMonth(y, m) ==
    IF m = 2 THEN (IF IsLeap(y) THEN 29 ELSE 28)
    ELSE IF m \in {4, 6, 9, 11} THEN 30 ELSE 31

\* datetime.date: <<year, month, day>> of the calendar
ValidDate(d) ==
    /\ d[1] \in 1..9999
    /\ d[2] \in 1..12
    /\ d[3] \in 1..DaysInMonth(d[1], d[2])

MaxNameLen == 200
MaxCategoryLen == 100

Get(raw, k, default) == IF k \in DOMAIN raw THEN raw[k] ELSE default

ActivityFields ==
    {"date", "name", "category", "duration_hours", "output", "notes", "file_ids"}

ActivityRequired == {"date", "name", "category", "duration_hours"}

ValidActivity(raw) ==
    /\ ActivityRequired \subseteq DOMAIN raw
    /\ ValidDate(raw.date)
    /\ Len(raw.name) <= MaxNameLen
    /\ RegexMatch(raw.category)
    /\ raw.duration_hours >= 0

\* Activity(**raw).dict(): the absent optional fields are None
ActivityDict(raw) ==
    [date |-> raw.date, name |-> raw.name, category |-> raw.category,
     duration_hours |-> raw.duration_hours,
     output |-> Get(raw, "output", NoneS),
     notes |-> Get(raw, "notes", NoneS),
     file_ids |-> Get(raw, "file_ids", None)]

FinanceFields == {"date", "category", "income", "expense", "notes"}

FinanceRequired == {"date", "category"}

ValidFinance(raw) ==
    /\ FinanceRequired \subseteq DOMAIN raw
    /\ ValidDate(raw.date)
    /\ Len(raw.category) <= MaxCategoryLen
    /\ Get(raw, "income", 0) >= 0
    /\ Get(raw, "expense", 0) >= 0

\* Finance(**raw).dict(): income and expense default to 0, notes to None
FinanceDict(raw) ==
    [date |-> raw.date, category |-> raw.category,
     income |-> Get(raw, "income", 0),
     expense |-> Get(raw, "expense", 0),
     notes |-> Get(raw, "notes", NoneS)]

-----------------------------------------------------------------------------
(* Persistence shim: the store's operations on one collection's documents *)

HasId(docs, oid) == \E d \in docs : d._id = oid

\* col.insert_one(data): the store adds the generated _id
InsertOne(docs, data, oid) == docs \cup {DictUpdate(data, [_id |-> oid])}

\* col.find_one({"_id": oid}): the document, or None
FindOne(docs, oid) ==
    IF HasId(docs, oid) THEN CHOOSE d \in docs : d._id = oid ELSE None

\* col.update_one({"_id": oid}, {"$set": updates}): no upsert
UpdateOne(docs, oid, updates) ==
    {IF d._id = oid THEN DictUpdate(d, updates) ELSE d : d \in docs}

\* mutant: the filter is dropped and every document goes
DeleteOne_NoFilter(docs, oid) == {d \in docs : FALSE}

\* col.delete_one({"_id": oid})
DeleteOne(docs, oid) == {d \in docs : d._id # oid}

DeletedCount(docs, oid) == Cardinality(docs) - Cardinality(DeleteOne(docs, oid))

\* serialize_document: a falsy doc as it is; else _id popped and id = str(_id)
serialize_document(doc) ==
    IF doc = None THEN doc
    ELSE DictUpdate(DictPop(doc, "_id"), [id |-> OidStr(doc._id)])

\* mutant: updated_at from a second, later reading of the clock
CreateStamp_TwoReadings(data, now) ==
    DictUpdate(data, [created_at |-> now, updated_at |-> now + 1])

\* the timestamps create_document stamps on the data
CreateStamp(data, now) == DictUpdate(data, [created_at |-> now, updated_at |-> now])

\* mutant: the update stamps created_at as well
UpdateStamp_Both(updates, now) ==
    DictUpdate(updates, [created_at |-> now, updated_at |-> now])

\* the timestamp update_document stamps on the updates
UpdateStamp(updates, now) == DictUpdate(updates, [updated_at |-> now])

\* delete_document's result
delete_document(docs, oid) == DeletedCount(docs, oid) = 1

\* get_document: find_one, serialized if truthy, else None
get_document(docs, oid) ==
    LET doc == FindOne(docs, oid)
    IN IF doc # None THEN serialize_document(doc) ELSE None

-----------------------------------------------------------------------------
(* The state after start-up: empty collections, an empty upload directory *)

Idle == [op |-> "", col |-> "", oid |-> 0, id |-> ""]

NoResponse == [op |-> "", col |-> "", id |-> "", outcome |-> "", body |-> None]

Init ==
    /\ db = [c \in Collections |-> {}]
    /\ nextId = 1
    /\ clock = 0
    /\ fs = <<>>
    /\ pc = [p \in Procs |-> "idle"]
    /\ pend = [p \in Procs |-> Idle]
    /\ resp = NoResponse
    /\ origin = <<>>

\* what a completed request returned: outcome is "ok" (the handler returned
\* body), "invalid" (the payload failed validation before the handler ran),
\* "not_found" (HTTPException 404) or "error" (an exception escaped)
Response(op, c, id, outcome, body) ==
    [op |-> op, col |-> c, id |-> id, outcome |-> outcome, body |-> body]

\* datetime.utcnow() advances
Tick ==
    /\ clock < MaxClock
    /\ clock' = clock + 1
    /\ UNCHANGED <<db, nextId, fs, pc, pend, resp, origin>>

-----------------------------------------------------------------------------
(* create_document and update_document, one database round trip a step *)

\* create_document, lines 26-29: stamp both timestamps with one reading of
\* the clock and insert; the re-read is left pending
CreateWrite(p, op, c, data, input) ==
    /\ db' = [db EXCEPT ![c] = InsertOne(@, CreateStamp(data, clock), nextId)]
    /\ nextId' = nextId + 1
    /\ pc' = [pc EXCEPT ![p] = "find"]
    /\ pend' = [pend EXCEPT ![p] = [op |-> op, col |-> c, oid |-> nextId, id |-> ""]]
    /\ origin' = (nextId :> input) @@ origin

\* update_document, lines 36-38: stamp updated_at and $set the updates on the
\* document with that _id, if there is one; the re-read is left pending
UpdateWrite(p, op, c, oid, id, updates) ==
    /\ db' = [db EXCEPT ![c] = UpdateOne(@, oid, UpdateStamp(updates, clock))]
    /\ pc' = [pc EXCEPT ![p] = "find"]
    /\ pend' = [pend EXCEPT ![p] = [op |-> op, col |-> c, oid |-> oid, id |-> id]]
    /\ origin' = IF HasId(db[c], oid) THEN DictPop(origin, oid) ELSE origin
    /\ UNCHANGED nextId

\* create_document lines 30-31, update_document lines 39-40: find_one by the
\* _id and return it serialized
FindAndReturn(p) ==
    /\ pc[p] = "find"
    /\ resp' = Response(pend[p].op, pend[p].col, pend[p].id, "ok",
                        serialize_document(FindOne(db[pend[p].col], pend[p].oid)))
    /\ pc' = [pc EXCEPT ![p] = "idle"]
    /\ pend' = [pend EXCEPT ![p] = Idle]
    /\ UNCHANGED <<db, nextId, clock, fs, origin>>

\* the request ends without touching the store
Reply(r) ==
    /\ resp' = r
    /\ UNCHANGED <<db, nextId, clock, fs, pc, pend, origin>>

-----------------------------------------------------------------------------
(* Activities and finances CRUD *)

Valid(c, raw) == IF c = "activity" THEN ValidActivity(raw) ELSE ValidFinance(raw)

Dict(c, raw) == IF c = "activity" THEN ActivityDict(raw) ELSE FinanceDict(raw)

\* POST /activities, POST /finances
Create(p, c, raw) ==
    /\ pc[p] = "idle"
    /\ \/ /\ ~Valid(c, raw)
          /\ Reply(Response("create", c, "", "invalid", None))
       \/ /\ Valid(c, raw)
          /\ CreateWrite(p, "create", c, Dict(c, raw), raw)
          /\ UNCHANGED <<clock, fs, resp>>

\* PUT /activities/{id}, PUT /finances/{id}
Update(p, c, id, raw) ==
    /\ pc[p] = "idle"
    /\ \/ /\ ~Valid(c, raw)
          /\ Reply(Response("update", c, id, "invalid", None))
       \/ /\ Valid(c, raw)
          /\ ObjectId(id) = InvalidId
          /\ Reply(Response("update", c, id, "error", None))
       \/ /\ Valid(c, raw)
          /\ ObjectId(id) # InvalidId
          /\ UpdateWrite(p, "update", c, ObjectId(id), id, Dict(c, raw))
          /\ UNCHANGED <<clock, fs, resp>>

\* DELETE /activities/{id}, DELETE /finances/{id}
Remove(c, id) ==
    \/ /\ ObjectId(id) = InvalidId
       /\ Reply(Response("delete", c, id, "error", None))
    \/ /\ ObjectId(id) # InvalidId
       /\ db' = [db EXCEPT ![c] = DeleteOne(@, ObjectId(id))]
       /\ resp' = Response("delete", c, id, "ok",
                           [success |-> delete_document(db[c], ObjectId(id))])
       /\ origin' = IF HasId(db[c], ObjectId(id))
                    THEN DictPop(origin, ObjectId(id)) ELSE origin
       /\ UNCHANGED <<nextId, clock, fs, pc, pend>>

create_activity(p, raw) == Create(p, "activity", raw)

update_activity(p, id, raw) == Update(p, "activity", id, raw)

remove_activity(id) == Remove("activity", id)

create_finance(p, raw) == Create(p, "finance", raw)

\* the shim's get_document, called on its own
GetDocument(c, id) ==
    \/ /\ ObjectId(id) = InvalidId
       /\ Reply(Response("get", c, id, "error", None))
    \/ /\ ObjectId(id) # InvalidId
       /\ Reply(Response("get", c, id, "ok", get_document(db[c], ObjectId(id))))

-----------------------------------------------------------------------------
(* File upload and download *)

UPLOAD_DIR == "/tmp/uploads"

DefaultContentType == "application/octet-stream"

\* mutant: the path is not keyed by the timestamp
PathOf_NoTimestamp(ms, filename) == UPLOAD_DIR \o "/" \o filename

\* os.path.join(UPLOAD_DIR, f"{int(utcnow().timestamp()*1000)}_{filename}")
PathOf(ms, filename) == UPLOAD_DIR \o "/" \o ToString(ms) \o "_" \o filename

\* the path names a file in a directory that does not exist: open() raises
HasSlash(filename) == \E i \in 1..Len(filename) : SubSeq(filename, i, i) = "/"

\* mutant: the declared content type is not recorded
ContentTypeOr_Dropped(content_type) == DefaultContentType

\* file.content_type or "application/octet-stream"
ContentTypeOr(content_type) ==
    IF content_type = NoneS \/ content_type = "" THEN DefaultContentType
    ELSE content_type

\* POST /files: write the bytes to the path, overwriting what is there, then
\* create_document("file", ...)
upload_file(p, filename, content_type, contents) ==
    /\ pc[p] = "idle"
    /\ \/ /\ HasSlash(filename)
          /\ Reply(Response("upload", "file", "", "error", None))
       \/ /\ ~HasSlash(filename)
          /\ fs' = (PathOf(clock, filename) :> contents) @@ fs
          /\ CreateWrite(p, "upload", "file",
                         [filename |-> filename,
                          content_type |-> ContentTypeOr(content_type),
                          url |-> PathOf(clock, filename),
                          size |-> Len(contents)],
                         [filename |-> filename, content_type |-> content_type,
                          contents |-> contents, ms |-> clock])
          /\ UNCHANGED <<clock, resp>>

\* GET /files/{file_id}: 404 without the record or without the file on disk,
\* else the file's bytes with the record's content type
DownloadResult(id) ==
    LET doc == get_document(db["file"], ObjectId(id))
    IN IF doc = None THEN [outcome |-> "not_found", body |-> None]
       ELSE IF doc.url \notin DOMAIN fs THEN [outcome |-> "not_found", body |-> None]
       ELSE [outcome |-> "ok",
             body |-> [bytes |-> fs[doc.url], media_type |-> doc.content_type]]

get_file(id) ==
    \/ /\ ObjectId(id) = InvalidId
       /\ Reply(Response("download", "file", id, "error", None))
    \/ /\ ObjectId(id) # InvalidId
       /\ Reply(Response("download", "file", id, DownloadResult(id).outcome,
                         DownloadResult(id).body))

-----------------------------------------------------------------------------
(* Specification of the activity CRUD: concurrent requests on one collection *)

LongName ==
    "nnnnnnnnnnnnnnnnnnnnnnnnnnnnnnnnnnnnnnnnnnnnnnnnnnnnnnnnnnnnnnnnnnnnnnnnnnnnnnnnnnnnnnnnnnnnnnnnnnnnnnnnnnnnnnnnnnnnnnnnnnnnnnnnnnnnnnnnnnnnnnnnnnnnnnnnnnnnnnnnnnnnnnnnnnnnnnnnnnnnnnnnnnnnnnnnnnnnnnnnn"

BaseActivity ==
    [date |-> <<2024, 3, 10>>, name |-> "report", category |-> "academics",
     duration_hours |-> 2]

\* request bodies: valid ones, and ones that fail one rule each
RawActivities ==
    {BaseActivity,
     [date |-> <<2024, 2, 29>>, name |-> "minutes", category |-> "social",
      duration_hours |-> 0, output |-> "pdf", notes |-> "draft",
      file_ids |-> <<"oid9">>],
     [BaseActivity EXCEPT !.category = "academics\n"],
     [BaseActivity EXCEPT !.category = "hobbies"],
     [BaseActivity EXCEPT !.date = <<2023, 2, 29>>],
     [BaseActivity EXCEPT !.name = LongName],
     [BaseActivity EXCEPT !.duration_hours = -1]}

\* path parameters: the identifiers the store can generate here, and strings
\* that are no ObjectId
IdStrings == {OidStr(n) : n \in 1..MaxIds} \cup {"bogus"}

Next ==
    \/ Tick
    \/ \E p \in Procs, raw \in RawActivities :
          nextId <= MaxIds /\ create_activity(p, raw)
    \/ \E p \in Procs, id \in IdStrings, raw \in RawActivities :
          update_activity(p, id, raw)
    \/ \E id \in IdStrings : remove_activity(id)
    \/ \E id \in IdStrings : GetDocument("activity", id)
    \/ \E p \in Procs : FindAndReturn(p)

Spec == Init /\ [][Next]_vars

-----------------------------------------------------------------------------
(* Claims on the activity CRUD, checked under Spec *)

MetaFields == {"id", "created_at", "updated_at"}

\* the optional field k of a record is None
IsNone(rec, k) == IF k = "file_ids" THEN rec[k] = None ELSE rec[k] = NoneS

\* the data fields of rec are those of the request body raw, the optional
\* fields raw leaves out being None
DataEquals(rec, raw) ==
    /\ \A k \in DOMAIN raw : rec[k] = raw[k]
    /\ \A k \in ActivityFields \ DOMAIN raw : IsNone(rec, k)

\* some stored activity has this id string
Exists(id) == \E d \in db["activity"] : OidStr(d._id) = id

UpdateFrame(id, raw) ==
    LET old == FindOne(db["activity"], ObjectId(id))
        new == FindOne(db'["activity"], ObjectId(id))
    IN /\ new # None
       /\ DOMAIN new = DOMAIN old
       /\ new._id = old._id
       /\ new.created_at = old.created_at
       /\ DataEquals(new, raw)
       /\ db'["activity"] \ {new} = db["activity"] \ {old}

UpdatesExisting(p, id, raw) ==
    /\ pc[p] = "idle"
    /\ pc'[p] = "find"
    /\ pend'[p].id = id
    /\ Exists(id)
    /\ ValidActivity(raw)
    /\ update_activity(p, id, raw)

C3_Delete ==
    [][\A id \in IdStrings :
          (resp'.op = "delete" /\ remove_activity(id))
          => IF Exists(id)
             THEN /\ resp'.outcome = "ok"
                  /\ resp'.body = [success |-> TRUE]
                  /\ get_document(db'["activity"], ObjectId(id)) = None
             ELSE /\ resp'.outcome = "ok"
                  /\ resp'.body = [success |-> FALSE]
                  /\ db' = db]_vars

\* C4: update on an id that matches no document is a silent no-op: it creates
\* no document, changes no document, and returns an absent result.
C4_UpdateMissing ==
    [][\A p \in Procs :
          /\ \A id \in IdStrings, raw \in RawActivities :
                (pc[p] = "idle" /\ ~Exists(id) /\ ValidActivity(raw)
                    /\ update_activity(p, id, raw))
                => /\ db' = db
                   /\ resp' = resp
                   /\ pc'[p] = "find"
          /\ (FindAndReturn(p) /\ pend[p].op = "update"
                 /\ ~HasId(db["activity"], pend[p].oid))
             => /\ resp'.outcome = "ok"
                /\ resp'.body = None]_vars

\* C6: creating an Activity whose category is one of the six enumerated values
\* succeeds, and one whose category is any other string is rejected by
\* validation before any storage operation, the collection unchanged.
C6_CategoryValidation ==
    [][\A p \in Procs, raw \in RawActivities :
          (pc[p] = "idle"
              /\ ValidActivity([raw EXCEPT !.category = "academics"])
              /\ create_activity(p, raw))
          => IF raw.category \in Categories
             THEN /\ pc'[p] = "find"
                  /\ Cardinality(db'["activity"]) = Cardinality(db["activity"]) + 1
             ELSE /\ resp'.outcome = "invalid"
                  /\ db' = db]_vars

\* C8: create and update write and then re-read in a separate step. The write
\* leaves the document stored; until the re-read only a delete of that id
\* removes it; the re-read returns absent exactly when it is gone, and else
\* the stored document under that id.
C8_RereadAfterWrite ==
    [][\A p \in Procs :
          /\ (pc[p] = "idle" /\ pc'[p] = "find"
                 /\ (pend'[p].op = "update"
                        => HasId(db[pend'[p].col], pend'[p].oid)))
             => HasId(db'[pend'[p].col], pend'[p].oid)
          /\ (pc[p] = "find" /\ HasId(db[pend[p].col], pend[p].oid)
                 /\ ~HasId(db'[pend[p].col], pend[p].oid))
             => \E id \in IdStrings :
                   ObjectId(id) = pend[p].oid /\ Remove(pend[p].col, id)
          /\ FindAndReturn(p)
             => IF HasId(db[pend[p].col], pend[p].oid)
                THEN resp'.body
                       = serialize_document(FindOne(db[pend[p].col], pend[p].oid))
                     /\ resp'.body.id = OidStr(pend[p].oid)
                ELSE resp'.body = None]_vars

\* a create returned absent: its document was deleted before the re-read
C8_Witness ==
    /\ resp.op = "create"
    /\ resp.outcome = "ok"
    /\ resp.body = None

-----------------------------------------------------------------------------
(* Listing and the monthly recap *)

\* get_documents' default limit (1000 in the source, scaled down)
DefaultLimit == 2

\* datetime.date order
DateLE(a, b) ==
    \/ a[1] < b[1]
    \/ a[1] = b[1] /\ a[2] < b[2]
    \/ a[1] = b[1] /\ a[2] = b[2] /\ a[3] <= b[3]

\* mutant: the cursor is not sorted
SortedByDate_Unsorted(docs) ==
    {s \in [1..Cardinality(docs) -> docs] :
        \A i, j \in DOMAIN s : i # j => s[i] # s[j]}

\* cursor.sort([("date", 1)]): the documents in ascending date order; the
\* store fixes no order among documents of equal date
SortedByDate(docs) ==
    {s \in [1..Cardinality(docs) -> docs] :
        /\ \A i, j \in DOMAIN s : i # j => s[i] # s[j]
        /\ \A i, j \in DOMAIN s : i < j => DateLE(s[i].date, s[j].date)}

\* the cursor without a sort: the documents in the order of insertion
NaturalOrder(docs) ==
    {s \in [1..Cardinality(docs) -> docs] :
        \A i, j \in DOMAIN s : i < j => s[i]._id < s[j]._id}

\* cursor.limit(limit); limit 0 is no limit
Limited(s, limit) ==
    IF limit # 0 /\ limit < Len(s) THEN SubSeq(s, 1, limit) ELSE s

\* get_documents(collection, {}, limit, sort): the lists it can return
get_documents(docs, limit, sort) ==
    {[i \in DOMAIN Limited(s, limit) |-> serialize_document(Limited(s, limit)[i])] :
        s \in IF sort = "date" THEN SortedByDate(docs) ELSE NaturalOrder(docs)}

\* mutant: the year is not tested
Matches_MonthOnly(d, month, year) == month = 0 \/ d.date[2] = month

\* the month/year test of list_activities and list_finances on one record
Matches(d, month, year) ==
    (year = 0 \/ d.date[1] = year) /\ (month = 0 \/ d.date[2] = month)

\* lines 86-93, 114-121: filter only if a month or a year is given
FilterByMonthYear(docs, month, year) ==
    IF month # 0 \/ year # 0
    THEN SelectSeq(docs, LAMBDA d : Matches(d, month, year))
    ELSE docs

\* what list_activities / list_finances can return
ListResults(c, month, year) ==
    {FilterByMonthYear(docs, month, year) :
        docs \in get_documents(db[c], DefaultLimit, "date")}

\* GET /activities, GET /finances
List(c, month, year) ==
    \E res \in ListResults(c, month, year) :
        Reply(Response("list", c, "", "ok", res) @@ [month |-> month, year |-> year])

list_activities(month, year) == List("activity", month, year)

list_finances(month, year) == List("finance", month, year)

RECURSIVE SumField(_, _)
SumField(s, k) == IF s = <<>> THEN 0 ELSE s[1][k] + SumField(Tail(s), k)

\* the by_cat loop: category -> number of the records with it
ByCategory(acts) ==
    [c \in {acts[i].category : i \in DOMAIN acts} |->
        Cardinality({i \in DOMAIN acts : acts[i].category = c})]

\* max(by_cat, key=by_cat.get): the first category, in the order the loop met
\* them, whose count is the largest; "-" without activities
TopCategory(acts) ==
    IF acts = <<>> THEN "-"
    ELSE LET by == ByCategory(acts)
             best == {c \in DOMAIN by : \A c2 \in DOMAIN by : by[c2] <= by[c]}
             first == CHOOSE i \in DOMAIN acts :
                         /\ acts[i].category \in best
                         /\ \A j \in 1..(i - 1) : acts[j].category \notin best
         IN acts[first].category

\* generate_summary: the values its template prints
generate_summary(month, year, acts, fins) ==
    [month |-> month, year |-> year, total_acts |-> Len(acts),
     top_cat |-> TopCategory(acts), by_cat |-> ByCategory(acts),
     income |-> SumField(fins, "income"), expense |-> SumField(fins, "expense"),
     net |-> SumField(fins, "income") - SumField(fins, "expense")]

RecapResponse(month, year, acts, fins) ==
    [month |-> month, year |-> year,
     total_activities |-> Len(acts),
     activities_by_category |-> ByCategory(acts),
     total_income |-> SumField(fins, "income"),
     total_expense |-> SumField(fins, "expense"),
     net |-> SumField(fins, "income") - SumField(fins, "expense"),
     summary |-> generate_summary(month, year, acts, fins)]

\* GET /recap
monthly_recap(month, year) ==
    \E acts \in ListResults("activity", month, year),
       fins \in ListResults("finance", month, year) :
        Reply(Response("recap", "", "", "ok", RecapResponse(month, year, acts, fins)))

-----------------------------------------------------------------------------
(* Specification of listing and recap: activities and finances are created, *)
(* then listed and aggregated                                               *)

RecapActivities ==
    {[date |-> <<2024, 3, 10>>, name |-> "lecture", category |-> "academics",
      duration_hours |-> 2],
     [date |-> <<2024, 3, 10>>, name |-> "meetup", category |-> "social",
      duration_hours |-> 1],
     [date |-> <<2024, 4, 5>>, name |-> "lecture", category |-> "academics",
      duration_hours |-> 2],
     [date |-> <<2023, 3, 1>>, name |-> "filing", category |-> "administration",
      duration_hours |-> 3]}

RecapFinances ==
    {[date |-> <<2024, 3, 15>>, category |-> "grant", income |-> 100, expense |-> 40],
     [date |-> <<2023, 3, 9>>, category |-> "books", expense |-> 30]}

Months == {3, 4}

Years == {0, 2024}

NextRecap ==
    \/ \E p \in Procs, raw \in RecapActivities :
          nextId <= MaxRecapIds /\ create_activity(p, raw)
    \/ \E p \in Procs, raw \in RecapFinances :
          nextId <= MaxRecapIds /\ create_finance(p, raw)
    \/ \E p \in Procs : FindAndReturn(p)
    \/ \E month \in Months \cup {0}, year \in Years : list_activities(month, year)
    \/ \E month \in Months \cup {0}, year \in Years : list_finances(month, year)
    \/ \E month \in Months, year \in Years : monthly_recap(month, year)

SpecRecap == Init /\ [][NextRecap]_vars

-----------------------------------------------------------------------------
(* Claims on listing and recap, checked under SpecRecap *)

\* the stored records of collection c dated in that month of that year
InMonth(c, month, year) ==
    {d \in db[c] : d.date[1] = year /\ d.date[2] = month}

RECURSIVE SumOver(_, _)
SumOver(S, k) ==
    IF S = {} THEN 0
    ELSE LET d == CHOOSE x \in S : TRUE IN d[k] + SumOver(S \ {d}, k)

\* the recap's aggregates are those of exactly the records of that month
RecapIsExact(body, month, year) ==
    LET acts == InMonth("activity", month, year)
        fins == InMonth("finance", month, year)
        hist == body.activities_by_category
    IN /\ body.total_activities = Cardinality(acts)
       /\ DOMAIN hist = {d.category : d \in acts}
       /\ \A c \in DOMAIN hist :
             hist[c] = Cardinality({d \in acts : d.category = c})
       /\ SumOver({<<c, hist[c]>> : c \in DOMAIN hist}, 2) = body.total_activities
       /\ body.total_income = SumOver(fins, "income")
       /\ body.total_expense = SumOver(fins, "expense")
       /\ body.net = body.total_income - body.total_expense
       /\ (acts = {} /\ fins = {})
          => /\ body.total_activities = 0 /\ hist = <<>>
             /\ body.total_income = 0 /\ body.total_expense = 0 /\ body.net = 0

ListedAfterLimit(res, c, month, year) ==
    LET match == {d \in db[c] : Matches(d, month, year)}
        got == {res[i] : i \in DOMAIN res}
    IN /\ got \subseteq {serialize_document(d) : d \in match}
       /\ Cardinality(got) = Len(res)
       /\ Len(res) <= DefaultLimit
       /\ \A i, j \in DOMAIN res : i < j => DateLE(res[i].date, res[j].date)
       /\ \A d \in match :
             serialize_document(d) \notin got
             => Cardinality({e \in db[c] \ {d} : DateLE(e.date, d.date)})
                  >= DefaultLimit
       /\ Cardinality(db[c]) <= DefaultLimit
          => got = {serialize_document(d) : d \in match}

\* C9: the month/year filter sees only the first limit documents in ascending
\* date order: list and recap can omit matching records of a collection larger
\* than the limit, and omit none of a collection of at most limit documents.
C9_FilterAfterLimit ==
    [][/\ (resp' # resp /\ resp'.op = "list")
          => ListedAfterLimit(resp'.body, resp'.col, resp'.month, resp'.year)
       /\ (resp' # resp /\ resp'.op = "recap")
          => LET n == Cardinality({d \in db["activity"] :
                                     Matches(d, resp'.body.month, resp'.body.year)})
             IN /\ resp'.body.total_activities <= n
                /\ Cardinality(db["activity"]) <= DefaultLimit
                   => resp'.body.total_activities = n]_vars

\* a recap that counts fewer activities than are stored for its month
C9_Witness ==
    /\ resp.op = "recap"
    /\ \A p \in Procs : pc[p] = "idle"
    /\ Cardinality(db["activity"]) > DefaultLimit
    /\ resp.body.year # 0
    /\ resp.body.total_activities
         < Cardinality(InMonth("activity", resp.body.month, resp.body.year))

-----------------------------------------------------------------------------
(* Specification of the file store: uploads and downloads as the clock runs *)

Filenames == {"a.txt", "b.txt", "d/a.txt"}

ContentTypes == {"text/plain", "image/png", NoneS}

Contents == {"hello", "bye!"}

FileIdStrings == {OidStr(n) : n \in 1..MaxFileIds} \cup {"bogus"}

NextFiles ==
    \/ Tick
    \/ \E p \in Procs, f \in Filenames, t \in ContentTypes, b \in Contents :
          nextId <= MaxFileIds /\ upload_file(p, f, t, b)
    \/ \E p \in Procs : FindAndReturn(p)
    \/ \E id \in FileIdStrings : get_file(id)

SpecFiles == Init /\ [][NextFiles]_vars

-----------------------------------------------------------------------------
(* Claims on the file store, checked under SpecFiles *)

\* a later upload wrote to the path of file document d
Overwritten(d) == \E e \in db["file"] : e._id > d._id /\ e.url = d.url

\* the last upload that wrote to the path of file document d
LastOnPath(d) ==
    CHOOSE e \in db["file"] :
        e.url = d.url /\ \A x \in db["file"] : x.url = d.url => x._id <= e._id

\* downloading by the id of d returns these bytes, with the content type
\* uploaded with d
Downloads(d, bytes) ==
    /\ DownloadResult(OidStr(d._id)).outcome = "ok"
    /\ DownloadResult(OidStr(d._id)).body.bytes = bytes
    /\ origin[d._id].content_type # NoneS
       => DownloadResult(OidStr(d._id)).body.media_type = origin[d._id].content_type

\* C7 as stated: downloading by the id an upload returned yields exactly the
\* uploaded bytes with the original content type, whatever other uploads
\* happen in between.
C7_Original == \A d \in db["file"] : Downloads(d, origin[d._id].contents)

\* C7 as amended: the same, provided no later upload of the same filename in
\* the same millisecond has overwritten the file.
C7_RoundTrip ==
    \A d \in db["file"] : ~Overwritten(d) => Downloads(d, origin[d._id].contents)

\* a download after another upload returned the bytes of the first upload
C7_Witness ==
    /\ resp.op = "download"
    /\ resp.outcome = "ok"
    /\ resp.id = OidStr(1)
    /\ Cardinality(db["file"]) = 2
    /\ resp.body = [bytes |-> "hello", media_type |-> "image/png"]
    /\ origin[1].contents = "hello"
    /\ origin[2].contents = "bye!"

\* C10: two uploads of the same filename in the same millisecond get the same
\* path: both records hold it as url, the later write overwrites the bytes and
\* a download by the first id returns the later upload's content; uploads that
\* differ in filename or in millisecond never share a path.
C10_PathCollision ==
    \A d1, d2 \in db["file"] :
        d1._id < d2._id
        => IF origin[d1._id].filename = origin[d2._id].filename
              /\ origin[d1._id].ms = origin[d2._id].ms
           THEN /\ d1.url = d2.url
                /\ fs[d1.url] = origin[LastOnPath(d1)._id].contents
                /\ Downloads(d1, origin[LastOnPath(d1)._id].contents)
           ELSE d1.url # d2.url

\* the first upload's id was downloaded and gave the second upload's bytes
C10_Witness ==
    /\ resp.op = "download"
    /\ resp.outcome = "ok"
    /\ resp.id = OidStr(1)
    /\ Cardinality(db["file"]) = 2
    /\ \A d \in db["file"] : d.url = PathOf(1, "a.txt")
    /\ origin[1].contents = "hello"
    /\ resp.body.bytes = "bye!"

====
